---- MODULE Spec2Model ----
(***************************************************************************)
(* WS2812B inventory indicator (main.py): the prompt loop of main(), the   *)
(* effect threads it starts (breathe_effect), and the shutdown in          *)
(* stop_all_breathing_effects, over one shared NeoPixel buffer.            *)
(*                                                                         *)
(* One step of a thread is one access to shared state (a pixel store, a    *)
(* pixels.show(), a read of its stop_event); CPython may switch threads    *)
(* between any two of them.  The main thread is interrupted by             *)
(* KeyboardInterrupt only inside the try block of main(); a second Ctrl-C  *)
(* during the finally clause is not part of the model.                     *)
(*                                                                         *)
(*   Spec       main() on a strip whose pixels.show() always succeeds      *)
(*   FairSpec   Spec with every thread scheduled again and again           *)
(*   SpecIO     Spec on a strip whose pixels.show() may raise              *)
(*   SpecCalls  the functions of main.py called in any order               *)
(*   SpecOne    one effect and set_led_color calls, on any address list    *)
(*   SpecCycle  one effect over more than a full breath cycle              *)
(***************************************************************************)
EXTENDS Integers, Sequences, FiniteSets, TLC

VARIABLES pixels,          \* the NeoPixel buffer (auto_write=False)
          shown,           \* the frame last pushed by pixels.show()
          threads,         \* every Thread started so far, in start order
          active_threads,  \* thread_id -> handle (index into threads)
          thread_lock,     \* TRUE while the main thread holds thread_lock
          mainpc,          \* position of the main thread
          loc              \* locals of the main thread

vars == <<pixels, shown, threads, active_threads, thread_lock, mainpc, loc>>

----------------------------------------------------------------------------
(* Bounds *)

MaxThreads == 2   \* effect threads started in one run
MaxFrames == 1    \* frames all effects begin in one run
CycleFrames == 151  \* frames the effect of SpecCycle begins: a breath cycle and one

----------------------------------------------------------------------------
(* Configuration *)

LED_COUNT == 60
FPS == 30
BREATH_DURATION == 5

Black == <<0, 0, 0>>

COLOR_MAP ==
  [n \in {"Orange", "White", "Blue", "Green", "Red", "Purple"} |->
     CASE n = "Orange" -> <<255, 165, 0>>
       [] n = "White"  -> <<255, 255, 255>>
       [] n = "Blue"   -> <<0, 0, 255>>
       [] n = "Green"  -> <<0, 255, 0>>
       [] n = "Red"    -> <<255, 0, 0>>
       [] n = "Purple" -> <<128, 0, 128>>]

\* the contents of the SKU sheet: <<Label, Address>> rows
SkuRows == << <<"A", 0>>, <<"A", 1>>, <<"b", 1>>, <<"b", 60>> >>

\* the contents of the sales order file: <<id, sku>> rows
OrderRows == << <<"1", "B">>, <<"1", "zz">>, <<"1", "b">>, <<"2", "zz">> >>

\* what the user may type at the prompt
Tokens == {"A", "zz", "1", "2", "9", "EXIT"}

\* str.lower() on the strings above
Lower(s) ==
  CASE s = "A" -> "a"
    [] s = "B" -> "b"
    [] s = "EXIT" -> "exit"
    [] OTHER -> s

\* str.isdigit() on the strings above
IsDigit(s) == s \in {"1", "2", "9"}

----------------------------------------------------------------------------
(* Pure functions *)

None == [some |-> FALSE, val |-> <<>>]
Some(l) == [some |-> TRUE, val |-> l]
\* truth value of a list-or-None
Truthy(r) == r.some /\ r.val # <<>>

RECURSIVE ColumnWhere(_, _, _)
\* the second column of the rows whose first column equals key
ColumnWhere(rows, key, i) ==
  IF i > Len(rows) THEN <<>>
  ELSE IF rows[i][1] = key
       THEN <<rows[i][2]>> \o ColumnWhere(rows, key, i + 1)
       ELSE ColumnWhere(rows, key, i + 1)

\* df_sku["Label"].str.lower()
LowerLabels(rows) == [i \in DOMAIN rows |-> <<Lower(rows[i][1]), rows[i][2]>>]

find_address_by_sku(sku_input) ==
  LET addresses == ColumnWhere(LowerLabels(SkuRows), Lower(sku_input), 1)
  IN IF addresses = <<>> THEN None ELSE Some(addresses)

find_skus_by_sales_order(sales_order_id) ==
  LET skus == ColumnWhere(OrderRows, sales_order_id, 1)
  IN IF skus = <<>> THEN None ELSE Some(skus)

RECURSIVE AllAddresses(_, _)
\* all_addresses of handle_input: the addresses of the order's SKUs
AllAddresses(skus, i) ==
  IF i > Len(skus) THEN <<>>
  ELSE LET a == find_address_by_sku(skus[i])
       IN (IF Truthy(a) THEN a.val ELSE <<>>) \o AllAddresses(skus, i + 1)

InRange(addr) == 0 <= addr /\ addr < LED_COUNT

\* the in-range addresses of a list
InRangeOf(address_list) ==
  {address_list[j] : j \in {k \in DOMAIN address_list : InRange(address_list[k])}}

total_steps == BREATH_DURATION * FPS

Micro == 1000000
\* floor(10^6 * (sin(pi * step / (total_steps / 2)) + 1) / 2), step 0..149
BrightnessMicro ==
    << 500000, 520937, 541838, 562666, 583384, 603955, 624344, 644515, 664433, 684062,
       703368, 722317, 740876, 759013, 776695, 793892, 810573, 826710, 842273, 857236,
       871572, 885256, 898264, 910574, 922163, 933012, 943101, 952413, 960931, 968640,
       975528, 981581, 986789, 991143, 994636, 997260, 999013, 999890, 999890, 999013,
       997260, 994636, 991143, 986789, 981581, 975528, 968640, 960931, 952413, 943101,
       933012, 922163, 910574, 898264, 885256, 871572, 857236, 842273, 826710, 810573,
       793892, 776695, 759013, 740876, 722317, 703368, 684062, 664433, 644515, 624344,
       603955, 583384, 562666, 541838, 520937, 500000, 479062, 458161, 437333, 416615,
       396044, 375655, 355484, 335566, 315937, 296631, 277682, 259123, 240986, 223304,
       206107, 189426, 173289, 157726, 142763, 128427, 114743, 101735, 89425, 77836,
       66987, 56898, 47586, 39068, 31359, 24471, 18418, 13210, 8856, 5363,
       2739, 986, 109, 109, 986, 2739, 5363, 8856, 13210, 18418,
       24471, 31359, 39068, 47586, 56898, 66987, 77836, 89425, 101735, 114743,
       128427, 142763, 157726, 173289, 189426, 206107, 223304, 240986, 259123, 277682,
       296631, 315937, 335566, 355484, 375655, 396044, 416615, 437333, 458161, 479062 >>

\* current_color with brightness = sin(...) + 1, the division by 2 left out
current_color_NoHalf(color_name, step) ==
  [c \in 1..3 |->
     (COLOR_MAP[color_name][c] * 2 * BrightnessMicro[step + 1]) \div Micro]

\* current_color: int(c * brightness) for c in base_color
current_color(color_name, step) ==
  [c \in 1..3 |-> (COLOR_MAP[color_name][c] * BrightnessMicro[step + 1]) \div Micro]

----------------------------------------------------------------------------
(* State *)

NoLocals == [user_input |-> "", color |-> "", addresses |-> <<>>,
             skus |-> <<>>, k |-> 0, ret |-> "", lookup |-> "",
             thread_id |-> 0, handle |-> 0, warned |-> 0]

Terminated(h) == threads[h].pc \in {"done", "returned", "died"}

Handles == DOMAIN threads

RECURSIVE SumFrames(_)
SumFrames(n) == IF n = 0 THEN 0 ELSE threads[n].frames + SumFrames(n - 1)
\* the frames begun so far, over all effects
FramesBegun == SumFrames(Len(threads))

Init ==
  /\ pixels = [a \in 0..(LED_COUNT - 1) |-> Black]
  /\ shown = [a \in 0..(LED_COUNT - 1) |-> Black]
  /\ threads = <<>>
  /\ active_threads = <<>>
  /\ thread_lock = FALSE
  /\ mainpc = "input"
  /\ loc = NoLocals

----------------------------------------------------------------------------
(* breathe_effect, run by thread h *)

\* EffectEnter with the body of breathe_effect run under thread_lock
EffectEnter_TakesLock(h) ==
  /\ threads[h].pc = "enter"
  /\ ~thread_lock
  /\ thread_lock' = TRUE
  /\ threads' = [threads EXCEPT ![h] =
       IF threads[h].color \notin DOMAIN COLOR_MAP
       THEN [@ EXCEPT !.pc = "returned"]
       ELSE IF threads[h].stop
       THEN [@ EXCEPT !.pc = "reset", !.i = 1, !.cleanups = @ + 1,
                      !.warned = 0, !.flushed = 0]
       ELSE [@ EXCEPT !.pc = "for", !.step = 0]]
  /\ UNCHANGED <<pixels, shown, active_threads, mainpc, loc>>

\* lines 89-96: the color check on entry, then the first test of the while
EffectEnter(h) ==
  /\ threads[h].pc = "enter"
  /\ threads' = [threads EXCEPT ![h] =
       IF threads[h].color \notin DOMAIN COLOR_MAP
       THEN [@ EXCEPT !.pc = "returned"]
       ELSE IF threads[h].stop
       THEN [@ EXCEPT !.pc = "reset", !.i = 1, !.cleanups = @ + 1,
                      !.warned = 0, !.flushed = 0]
       ELSE [@ EXCEPT !.pc = "for", !.step = 0]]
  /\ UNCHANGED <<pixels, shown, active_threads, thread_lock, mainpc, loc>>

\* EffectWhile without the reset_leds call of line 122
EffectWhile_SkipsCleanup(h) ==
  /\ threads[h].pc = "while"
  /\ threads' = [threads EXCEPT ![h] =
       IF threads[h].stop
       THEN [@ EXCEPT !.pc = "done"]
       ELSE [@ EXCEPT !.pc = "for", !.step = 0]]
  /\ UNCHANGED <<pixels, shown, active_threads, thread_lock, mainpc, loc>>

\* line 96: while not stop_event.is_set(), after a pass of the for loop
EffectWhile(h) ==
  /\ threads[h].pc = "while"
  /\ threads' = [threads EXCEPT ![h] =
       IF threads[h].stop
       THEN [@ EXCEPT !.pc = "reset", !.i = 1, !.cleanups = @ + 1,
                      !.warned = 0, !.flushed = 0]
       ELSE [@ EXCEPT !.pc = "for", !.step = 0]]
  /\ UNCHANGED <<pixels, shown, active_threads, thread_lock, mainpc, loc>>

\* lines 97-106: the next step of range(total_steps), the stop check, the
\* color; a run begins at most budget frames
EffectForWithin(h, budget) ==
  /\ threads[h].pc = "for"
  /\ threads[h].stop \/ threads[h].step >= total_steps
       \/ FramesBegun < budget
  /\ threads' = [threads EXCEPT ![h] =
       IF threads[h].step >= total_steps \/ threads[h].stop
       THEN [@ EXCEPT !.pc = "while"]
       ELSE [@ EXCEPT !.pc = IF threads[h].addrs = <<>> THEN "show" ELSE "write",
                      !.i = 1, !.frames = @ + 1,
                      !.warned = 0, !.flushed = 0]]
  /\ UNCHANGED <<pixels, shown, active_threads, thread_lock, mainpc, loc>>

\* EffectFor without the stop check of lines 98-99
EffectFor_NoBreak(h) ==
  /\ threads[h].pc = "for"
  /\ threads[h].step >= total_steps \/ FramesBegun < MaxFrames
  /\ threads' = [threads EXCEPT ![h] =
       IF threads[h].step >= total_steps
       THEN [@ EXCEPT !.pc = "while"]
       ELSE [@ EXCEPT !.pc = IF threads[h].addrs = <<>> THEN "show" ELSE "write",
                      !.i = 1, !.frames = @ + 1,
                      !.warned = 0, !.flushed = 0]]
  /\ UNCHANGED <<pixels, shown, active_threads, thread_lock, mainpc, loc>>

\* lines 97-106 in a run of at most MaxFrames frames
EffectFor(h) == EffectForWithin(h, MaxFrames)

\* EffectWrite storing at the position in the list instead of the address
EffectWrite_ByPosition(h) ==
  /\ threads[h].pc = "write"
  /\ LET t == threads[h]
         addr == t.addrs[t.i]
     IN /\ pixels' = IF InRange(addr)
                     THEN [pixels EXCEPT ![t.i] = current_color(t.color, t.step)]
                     ELSE pixels
        /\ threads' = [threads EXCEPT ![h] =
             [@ EXCEPT !.pc = IF t.i = Len(t.addrs) THEN "show" ELSE "write",
                       !.i = IF t.i = Len(t.addrs) THEN t.i ELSE t.i + 1,
                       !.warned = IF InRange(addr) THEN @ ELSE @ + 1]]
  /\ UNCHANGED <<shown, active_threads, thread_lock, mainpc, loc>>

\* EffectWrite without the range check of line 110: the store raises
\* IndexError and the thread ends
EffectWrite_NoRangeCheck(h) ==
  /\ threads[h].pc = "write"
  /\ LET t == threads[h]
         addr == t.addrs[t.i]
     IN /\ pixels' = IF InRange(addr)
                     THEN [pixels EXCEPT ![addr] = current_color(t.color, t.step)]
                     ELSE pixels
        /\ threads' = [threads EXCEPT ![h] =
             IF ~InRange(addr) THEN [@ EXCEPT !.pc = "died"]
             ELSE [@ EXCEPT !.pc = IF t.i = Len(t.addrs) THEN "show" ELSE "write",
                            !.i = IF t.i = Len(t.addrs) THEN t.i ELSE t.i + 1]]
  /\ UNCHANGED <<shown, active_threads, thread_lock, mainpc, loc>>

\* lines 109-113: one address of the frame, stored or warned about
EffectWrite(h) ==
  /\ threads[h].pc = "write"
  /\ LET t == threads[h]
         addr == t.addrs[t.i]
     IN /\ pixels' = IF InRange(addr)
                     THEN [pixels EXCEPT ![addr] = current_color(t.color, t.step)]
                     ELSE pixels
        /\ threads' = [threads EXCEPT ![h] =
             [@ EXCEPT !.pc = IF t.i = Len(t.addrs) THEN "show" ELSE "write",
                       !.i = IF t.i = Len(t.addrs) THEN t.i ELSE t.i + 1,
                       !.warned = IF InRange(addr) THEN @ ELSE @ + 1]]
  /\ UNCHANGED <<shown, active_threads, thread_lock, mainpc, loc>>

\* EffectShow that advances the step by two
EffectShow_SkipsStep(h) ==
  /\ threads[h].pc = "show"
  /\ shown' = pixels
  /\ threads' = [threads EXCEPT ![h].pc = "for", ![h].step = @ + 2,
                                ![h].flushed = @ + 1]
  /\ UNCHANGED <<pixels, active_threads, thread_lock, mainpc, loc>>

\* EffectShow that flushes only when the frame has stored a pixel
EffectShow_OnlyIfStored(h) ==
  /\ threads[h].pc = "show"
  /\ LET stored == InRangeOf(threads[h].addrs) # {}
     IN /\ shown' = IF stored THEN pixels ELSE shown
        /\ threads' = [threads EXCEPT ![h].pc = "for", ![h].step = @ + 1,
                                      ![h].flushed = IF stored THEN @ + 1 ELSE @]
  /\ UNCHANGED <<pixels, active_threads, thread_lock, mainpc, loc>>

\* lines 116-119: pixels.show(), then time.sleep(1 / fps), which touches
\* nothing shared, and on to the next step of the for loop
EffectShow(h) ==
  /\ threads[h].pc = "show"
  /\ shown' = pixels
  /\ threads' = [threads EXCEPT ![h].pc = "for", ![h].step = @ + 1,
                                ![h].flushed = @ + 1]
  /\ UNCHANGED <<pixels, active_threads, thread_lock, mainpc, loc>>

\* lines 132-134 (called from line 122): one address of reset_leds
EffectReset(h) ==
  /\ threads[h].pc = "reset"
  /\ LET t == threads[h]
     IN IF t.i > Len(t.addrs)
        THEN /\ threads' = [threads EXCEPT ![h].pc = "reset_show"]
             /\ pixels' = pixels
        ELSE /\ pixels' = IF InRange(t.addrs[t.i])
                          THEN [pixels EXCEPT ![t.addrs[t.i]] = Black]
                          ELSE pixels
             /\ threads' = [threads EXCEPT ![h] =
                  [@ EXCEPT !.pc = IF t.i = Len(t.addrs)
                                   THEN "reset_show" ELSE "reset",
                            !.i = IF t.i = Len(t.addrs) THEN t.i ELSE t.i + 1,
                            !.zeroed = IF InRange(t.addrs[t.i])
                                       THEN @ \cup {t.addrs[t.i]} ELSE @]]
  /\ UNCHANGED <<shown, active_threads, thread_lock, mainpc, loc>>

\* line 135: pixels.show() of reset_leds, then breathe_effect returns
EffectResetShow(h) ==
  /\ threads[h].pc = "reset_show"
  /\ shown' = pixels
  /\ threads' = [threads EXCEPT ![h].pc = "done", ![h].flushed = @ + 1]
  /\ UNCHANGED <<pixels, active_threads, thread_lock, mainpc, loc>>

EffectStep(h) ==
  \/ EffectEnter(h)
  \/ EffectWhile(h)
  \/ EffectFor(h)
  \/ EffectWrite(h)
  \/ EffectShow(h)
  \/ EffectReset(h)
  \/ EffectResetShow(h)

----------------------------------------------------------------------------
(* handle_input and main, run by the main thread *)

\* the number of effects handle_input starts for a token
NumStarts(tok) ==
  IF Lower(tok) = "exit" THEN 0
  ELSE IF IsDigit(tok)
       THEN LET skus == find_skus_by_sales_order(tok)
            IN IF ~skus.some \/ AllAddresses(skus.val, 1) = <<>> THEN 0
               ELSE Cardinality({i \in DOMAIN skus.val :
                                   Truthy(find_address_by_sku(skus.val[i]))})
       ELSE IF find_address_by_sku(tok).some THEN 1 ELSE 0

\* Input that starts an effect on the addresses it found, found or not
Input_NoneIsStarted(tok) ==
  /\ mainpc = "input"
  /\ Len(threads) + NumStarts(tok) <= MaxThreads
  /\ Len(threads) < MaxThreads
  /\ IF Lower(tok) = "exit"
     THEN /\ mainpc' = "stop_acquire"
          /\ loc' = NoLocals
     ELSE IF IsDigit(tok)
     THEN LET skus == find_skus_by_sales_order(tok)
          IN IF ~skus.some \/ AllAddresses(skus.val, 1) = <<>>
             THEN /\ mainpc' = "return_none"
                  /\ loc' = [NoLocals EXCEPT !.user_input = tok]
             ELSE /\ mainpc' = "order_for"
                  /\ loc' = [NoLocals EXCEPT !.user_input = tok,
                                             !.skus = skus.val, !.k = 1]
     ELSE /\ mainpc' = "lock"
          /\ loc' = [NoLocals EXCEPT !.user_input = tok, !.color = "White",
                                     !.addresses = find_address_by_sku(tok).val,
                                     !.ret = "input", !.lookup = "sku"]
  /\ UNCHANGED <<pixels, shown, threads, active_threads, thread_lock>>

\* lines 186-210 and 239-248: read a token and resolve it; a token that
\* resolves to nothing makes handle_input return None
Input(tok) ==
  /\ mainpc = "input"
  /\ Len(threads) + NumStarts(tok) <= MaxThreads
  /\ IF Lower(tok) = "exit"
     THEN /\ mainpc' = "stop_acquire"
          /\ loc' = NoLocals
     ELSE IF IsDigit(tok)
     THEN LET skus == find_skus_by_sales_order(tok)
          IN IF ~skus.some \/ AllAddresses(skus.val, 1) = <<>>
             THEN /\ mainpc' = "return_none"
                  /\ loc' = [NoLocals EXCEPT !.user_input = tok]
             ELSE /\ mainpc' = "order_for"
                  /\ loc' = [NoLocals EXCEPT !.user_input = tok,
                                             !.skus = skus.val, !.k = 1]
     ELSE LET addresses == find_address_by_sku(tok)
          IN IF ~addresses.some
             THEN /\ mainpc' = "return_none"
                  /\ loc' = [NoLocals EXCEPT !.user_input = tok]
             ELSE /\ mainpc' = "lock"
                  /\ loc' = [NoLocals EXCEPT !.user_input = tok,
                                             !.color = "White",
                                             !.addresses = addresses.val,
                                             !.ret = "input", !.lookup = "sku"]
  /\ UNCHANGED <<pixels, shown, threads, active_threads, thread_lock>>

\* lines 319-321: handle_input has returned None, the while loop of main()
\* calls it again
ReturnNone ==
  /\ mainpc = "return_none"
  /\ mainpc' = "input"
  /\ loc' = NoLocals
  /\ UNCHANGED <<pixels, shown, threads, active_threads, thread_lock>>

\* OrderFor that starts an effect for each unique SKU only: a row whose
\* SKU an earlier row of the order names is passed over
OrderFor_UniqueSkus ==
  /\ mainpc = "order_for"
  /\ IF loc.k > Len(loc.skus)
     THEN /\ mainpc' = "input"
          /\ loc' = NoLocals
     ELSE LET addresses == find_address_by_sku(loc.skus[loc.k])
              seen == \E j \in 1..(loc.k - 1) :
                        Lower(loc.skus[j]) = Lower(loc.skus[loc.k])
          IN IF Truthy(addresses) /\ ~seen
             THEN /\ mainpc' = "lock"
                  /\ loc' = [loc EXCEPT !.color = "White",
                                        !.addresses = addresses.val,
                                        !.ret = "order_for", !.lookup = "order",
                                        !.k = @ + 1]
             ELSE /\ mainpc' = mainpc
                  /\ loc' = [loc EXCEPT !.k = @ + 1]
  /\ UNCHANGED <<pixels, shown, threads, active_threads, thread_lock>>

\* lines 214-219: the next SKU of the sales order
OrderFor ==
  /\ mainpc = "order_for"
  /\ IF loc.k > Len(loc.skus)
     THEN /\ mainpc' = "input"
          /\ loc' = NoLocals
     ELSE LET addresses == find_address_by_sku(loc.skus[loc.k])
          IN IF Truthy(addresses)
             THEN /\ mainpc' = "lock"
                  /\ loc' = [loc EXCEPT !.color = "White",
                                        !.addresses = addresses.val,
                                        !.ret = "order_for", !.lookup = "order",
                                        !.k = @ + 1]
             ELSE /\ mainpc' = mainpc
                  /\ loc' = [loc EXCEPT !.k = @ + 1]
  /\ UNCHANGED <<pixels, shown, threads, active_threads, thread_lock>>

\* lines 220-224 and 251-255: with thread_lock, thread_id = len(active_threads) + 1
Acquire ==
  /\ mainpc = "lock"
  /\ ~thread_lock
  /\ thread_lock' = TRUE
  /\ loc' = [loc EXCEPT !.thread_id = Cardinality(DOMAIN active_threads) + 1]
  /\ mainpc' = "thread_start"
  /\ UNCHANGED <<pixels, shown, threads, active_threads>>

\* A thread running breathe_effect carries the arguments of the call (id,
\* color, addrs), its stop_event (stop), its position (pc, step, i), the
\* frames it has begun (frames), whether it has been entered in
\* active_threads (tracked) and the branch of handle_input that started it
\* (lookup); of the frame or cleanup in progress, or the last one, the
\* warnings printed (warned) and the pixels.show() calls made (flushed);
\* the calls of reset_leds it has made (cleanups) and the addresses these
\* have set to (0,0,0) (zeroed).
NewThread(thread_id, color_name, address_list, lookup) ==
  [id |-> thread_id, color |-> color_name, addrs |-> address_list,
   pc |-> "enter", step |-> 0, i |-> 0, frames |-> 0,
   stop |-> FALSE, tracked |-> FALSE, lookup |-> lookup,
   warned |-> 0, flushed |-> 0, cleanups |-> 0, zeroed |-> {}]

\* lines 226-231 and 257-262: thread.start()
ThreadStart ==
  /\ mainpc = "thread_start"
  /\ threads' = Append(threads,
        NewThread(loc.thread_id, loc.color, loc.addresses, loc.lookup))
  /\ loc' = [loc EXCEPT !.handle = Len(threads) + 1]
  /\ mainpc' = "register"
  /\ UNCHANGED <<pixels, shown, active_threads, thread_lock>>

\* Register that also cancels the effects started earlier
Register_CancelsOthers ==
  /\ mainpc = "register"
  /\ active_threads' = [id \in DOMAIN active_threads \cup {loc.thread_id} |->
                          IF id = loc.thread_id THEN loc.handle
                          ELSE active_threads[id]]
  /\ threads' = [h \in DOMAIN threads |->
                   IF h = loc.handle THEN [threads[h] EXCEPT !.tracked = TRUE]
                   ELSE [threads[h] EXCEPT !.stop = TRUE]]
  /\ thread_lock' = FALSE
  /\ mainpc' = loc.ret
  /\ loc' = IF loc.ret = "input" THEN NoLocals
            ELSE [loc EXCEPT !.color = "", !.addresses = <<>>, !.ret = "",
                             !.lookup = "", !.thread_id = 0, !.handle = 0]
  /\ UNCHANGED <<pixels, shown>>

\* lines 233-237 and 264-268: active_threads[thread_id] = ..., leave the with block
Register ==
  /\ mainpc = "register"
  /\ active_threads' = [id \in DOMAIN active_threads \cup {loc.thread_id} |->
                          IF id = loc.thread_id THEN loc.handle
                          ELSE active_threads[id]]
  /\ threads' = [threads EXCEPT ![loc.handle].tracked = TRUE]
  /\ thread_lock' = FALSE
  /\ mainpc' = loc.ret
  /\ loc' = IF loc.ret = "input" THEN NoLocals
            ELSE [loc EXCEPT !.color = "", !.addresses = <<>>, !.ret = "",
                             !.lookup = "", !.thread_id = 0, !.handle = 0]
  /\ UNCHANGED <<pixels, shown>>

\* the positions of the main thread inside the try block of main()
TryPcs == {"input", "return_none", "order_for", "lock", "thread_start", "register"}

\* lines 322-326: Ctrl-C inside the try block; a with block it unwinds
\* releases thread_lock; the finally clause runs next
KeyboardInterrupt ==
  /\ mainpc \in TryPcs
  /\ thread_lock' = FALSE
  /\ mainpc' = "stop_acquire"
  /\ loc' = NoLocals
  /\ UNCHANGED <<pixels, shown, threads, active_threads>>

----------------------------------------------------------------------------
(* stop_all_breathing_effects, run by the main thread *)

\* line 276: with thread_lock
StopAcquire ==
  /\ mainpc = "stop_acquire"
  /\ ~thread_lock
  /\ thread_lock' = TRUE
  /\ mainpc' = "stop_signal"
  /\ loc' = [NoLocals EXCEPT !.k = 1]
  /\ UNCHANGED <<pixels, shown, threads, active_threads>>

\* StopSignal that sets the stop_event of the first entry only
StopSignal_FirstOnly ==
  /\ mainpc = "stop_signal"
  /\ IF loc.k \in DOMAIN active_threads
     THEN /\ threads' = IF loc.k = 1
                        THEN [threads EXCEPT ![active_threads[loc.k]].stop = TRUE]
                        ELSE threads
          /\ loc' = [loc EXCEPT !.k = @ + 1]
          /\ mainpc' = mainpc
     ELSE /\ threads' = threads
          /\ loc' = [loc EXCEPT !.k = 1]
          /\ mainpc' = "stop_join"
  /\ UNCHANGED <<pixels, shown, active_threads, thread_lock>>

\* lines 277-279: stop_event.set() for the next entry, in insertion order
StopSignal ==
  /\ mainpc = "stop_signal"
  /\ IF loc.k \in DOMAIN active_threads
     THEN /\ threads' = [threads EXCEPT ![active_threads[loc.k]].stop = TRUE]
          /\ loc' = [loc EXCEPT !.k = @ + 1]
          /\ mainpc' = mainpc
     ELSE /\ threads' = threads
          /\ loc' = [loc EXCEPT !.k = 1]
          /\ mainpc' = "stop_join"
  /\ UNCHANGED <<pixels, shown, active_threads, thread_lock>>

\* lines 282-284: join the next entry's thread, then reset_leds([])
StopJoin ==
  /\ mainpc = "stop_join"
  /\ loc.k \in DOMAIN active_threads
  /\ Terminated(active_threads[loc.k])
  /\ shown' = pixels
  /\ loc' = [loc EXCEPT !.k = @ + 1]
  /\ UNCHANGED <<pixels, threads, active_threads, thread_lock, mainpc>>

\* lines 286-288: active_threads.clear(), leave the with block, return;
\* main() returns next without waiting for any daemon thread still alive
StopClear ==
  /\ mainpc = "stop_join"
  /\ loc.k \notin DOMAIN active_threads
  /\ active_threads' = <<>>
  /\ thread_lock' = FALSE
  /\ mainpc' = "exited"
  /\ loc' = NoLocals
  /\ UNCHANGED <<pixels, shown, threads>>

StopPcs == {"stop_acquire", "stop_signal", "stop_join"}

----------------------------------------------------------------------------
(* The program: main() and the threads it starts *)

\* a step of handle_input
HandleInputStep ==
  \/ \E tok \in Tokens : Input(tok)
  \/ ReturnNone
  \/ OrderFor
  \/ Acquire
  \/ ThreadStart
  \/ Register

\* a step of stop_all_breathing_effects
StopAllStep ==
  \/ StopAcquire
  \/ StopSignal
  \/ StopJoin
  \/ StopClear

Next ==
  \/ HandleInputStep
  \/ KeyboardInterrupt
  \/ StopAllStep
  \/ \E h \in Handles : EffectStep(h)

Spec == Init /\ [][Next]_vars

----------------------------------------------------------------------------
(* Scheduling: every live thread keeps being scheduled *)

Effect(h) == h \in Handles /\ EffectStep(h)

FairSpec ==
  /\ Spec
  /\ WF_vars(StopAllStep)
  /\ \A h \in 1..MaxThreads : WF_vars(Effect(h))

----------------------------------------------------------------------------
(* The same program on a strip whose pixels.show() may raise *)

\* line 116 raising: nothing in breathe_effect catches it, the thread ends
EffectShowFail(h) ==
  /\ threads[h].pc = "show"
  /\ threads' = [threads EXCEPT ![h].pc = "died"]
  /\ UNCHANGED <<pixels, shown, active_threads, thread_lock, mainpc, loc>>

\* line 135 raising inside the cleanup of breathe_effect
EffectResetShowFail(h) ==
  /\ threads[h].pc = "reset_show"
  /\ threads' = [threads EXCEPT ![h].pc = "died"]
  /\ UNCHANGED <<pixels, shown, active_threads, thread_lock, mainpc, loc>>

\* line 284 raising: the with block releases thread_lock and the exception
\* leaves stop_all_breathing_effects and main()
StopJoinShowFail ==
  /\ mainpc = "stop_join"
  /\ loc.k \in DOMAIN active_threads
  /\ Terminated(active_threads[loc.k])
  /\ thread_lock' = FALSE
  /\ mainpc' = "crashed"
  /\ loc' = NoLocals
  /\ UNCHANGED <<pixels, shown, threads, active_threads>>

NextIO ==
  \/ Next
  \/ \E h \in Handles : EffectShowFail(h)
  \/ \E h \in Handles : EffectResetShowFail(h)
  \/ StopJoinShowFail

SpecIO == Init /\ [][NextIO]_vars

----------------------------------------------------------------------------
(* The functions of main.py called in any order by the main thread,      *)
(* outside the try block of main()                                       *)

\* arguments a caller may pass for color_name and address_list
CallColors == {"Red", "Pink"}
CallAddresses == {<<>>, <<2>>, <<1, 60>>}

\* handle_input called again after stop_all_breathing_effects has returned
CallAgain ==
  /\ mainpc = "exited"
  /\ mainpc' = "input"
  /\ UNCHANGED <<pixels, shown, threads, active_threads, thread_lock, loc>>

\* a call of set_led_color(color_name, address_list)
CallSetLedColor(color_name, address_list) ==
  /\ mainpc = "input"
  /\ mainpc' = "set_led_color"
  /\ loc' = [NoLocals EXCEPT !.color = color_name, !.addresses = address_list]
  /\ UNCHANGED <<pixels, shown, threads, active_threads, thread_lock>>

\* lines 60-65: the color check of set_led_color
SetLedColorEnter ==
  /\ mainpc = "set_led_color"
  /\ IF loc.color \notin DOMAIN COLOR_MAP
     THEN /\ mainpc' = "input"
          /\ loc' = NoLocals
     ELSE /\ mainpc' = IF loc.addresses = <<>> THEN "slc_show" ELSE "slc_write"
          /\ loc' = [loc EXCEPT !.k = 1]
  /\ UNCHANGED <<pixels, shown, threads, active_threads, thread_lock>>

\* lines 68-72: one address of set_led_color, stored or warned about
\* (loc.warned: the warnings the call has printed)
SetLedColorWrite ==
  /\ mainpc = "slc_write"
  /\ LET addr == loc.addresses[loc.k]
     IN pixels' = IF InRange(addr)
                  THEN [pixels EXCEPT ![addr] = COLOR_MAP[loc.color]]
                  ELSE pixels
  /\ mainpc' = IF loc.k = Len(loc.addresses) THEN "slc_show" ELSE mainpc
  /\ loc' = [loc EXCEPT
       !.k = IF loc.k = Len(loc.addresses) THEN @ ELSE @ + 1,
       !.warned = IF InRange(loc.addresses[loc.k]) THEN @ ELSE @ + 1]
  /\ UNCHANGED <<shown, threads, active_threads, thread_lock>>

\* line 75: pixels.show() of set_led_color
SetLedColorShow ==
  /\ mainpc = "slc_show"
  /\ shown' = pixels
  /\ mainpc' = "input"
  /\ loc' = NoLocals
  /\ UNCHANGED <<pixels, threads, active_threads, thread_lock>>

\* lines 251-268 for any color_name and address_list: start breathe_effect
\* on a thread and track it
CallStart(color_name, address_list) ==
  /\ mainpc = "input"
  /\ Len(threads) < MaxThreads
  /\ mainpc' = "lock"
  /\ loc' = [NoLocals EXCEPT !.color = color_name, !.addresses = address_list,
                             !.ret = "input", !.lookup = "sku"]
  /\ UNCHANGED <<pixels, shown, threads, active_threads, thread_lock>>

NextCalls ==
  \/ HandleInputStep
  \/ StopAllStep
  \/ \E h \in Handles : EffectStep(h)
  \/ CallAgain
  \/ \E c \in CallColors, al \in CallAddresses : CallSetLedColor(c, al)
  \/ SetLedColorEnter
  \/ SetLedColorWrite
  \/ SetLedColorShow
  \/ \E c \in CallColors, al \in CallAddresses : CallStart(c, al)

SpecCalls == Init /\ [][NextCalls]_vars

----------------------------------------------------------------------------
(* One effect, started and tracked, and the main thread's calls            *)

\* address lists with out-of-range addresses among them
MixedAddresses == {<<>>, <<60>>, <<1, 60, -1>>}

\* lines 251-268 have run for color_name and address_list: breathe_effect
\* is on a thread that is tracked under thread_id 1
Started(color_name, address_list) ==
  /\ pixels = [a \in 0..(LED_COUNT - 1) |-> Black]
  /\ shown = [a \in 0..(LED_COUNT - 1) |-> Black]
  /\ threads = << [NewThread(1, color_name, address_list, "sku")
                     EXCEPT !.tracked = TRUE] >>
  /\ active_threads = <<1>>
  /\ thread_lock = FALSE
  /\ mainpc = "input"
  /\ loc = NoLocals

InitOne == \E c \in CallColors, al \in MixedAddresses : Started(c, al)

NextOne ==
  \/ \E h \in Handles : EffectStep(h)
  \/ \E c \in CallColors, al \in MixedAddresses : CallSetLedColor(c, al)
  \/ SetLedColorEnter
  \/ SetLedColorWrite
  \/ SetLedColorShow
  \/ KeyboardInterrupt
  \/ StopAllStep

SpecOne == InitOne /\ [][NextOne]_vars

----------------------------------------------------------------------------
(* One effect, started and tracked, running for more than total_steps      *)
(* frames until Ctrl-C                                                     *)

CycleColors == {"Orange", "Purple"}
CycleAddresses == {<<0, 1>>, <<1, 60>>}

InitCycle == \E c \in CycleColors, al \in CycleAddresses : Started(c, al)

EffectCycleStep(h) ==
  \/ EffectEnter(h)
  \/ EffectWhile(h)
  \/ EffectForWithin(h, CycleFrames)
  \/ EffectWrite(h)
  \/ EffectShow(h)
  \/ EffectReset(h)
  \/ EffectResetShow(h)

NextCycle ==
  \/ \E h \in Handles : EffectCycleStep(h)
  \/ KeyboardInterrupt
  \/ StopAllStep

SpecCycle == InitCycle /\ [][NextCycle]_vars

----------------------------------------------------------------------------
(* Properties *)

Running(h) == ~Terminated(h)

\* every in-range address of effect h is off in the buffer and on the strip
AddressesOff(h) ==
  \A j \in DOMAIN threads[h].addrs :
    InRange(threads[h].addrs[j]) =>
      /\ pixels[threads[h].addrs[j]] = Black
      /\ shown[threads[h].addrs[j]] = Black

\* thread h is between the first store of a frame and the pixels.show()
\* that pushes the frame
MidFrame(h) ==
  \/ threads[h].pc = "write" /\ threads[h].i > 1
  \/ threads[h].pc = "show" /\ threads[h].addrs # <<>>

\* thread h takes this step (every step of breathe_effect moves pc or i;
\* stop and tracked are written by the main thread)
Stepped(h) ==
  \/ threads'[h].pc # threads[h].pc
  \/ threads'[h].i # threads[h].i

\* thread h stores a pixel or calls pixels.show() in this step, in a frame
\* or in its cleanup
WritesOrFlushes(h) ==
  /\ threads[h].pc \in {"write", "show", "reset", "reset_show"}
  /\ Stepped(h)

\* C1: once stop_all_breathing_effects has returned, no effect thread is
\* still running, every in-range address of every effect that was tracked
\* is (0,0,0) in the buffer and in the last flushed frame, and
\* active_threads is empty.
C1_StopAllLeavesNothing ==
  mainpc = "exited" =>
    /\ \A h \in Handles : Terminated(h)
    /\ \A h \in Handles : threads[h].tracked => AddressesOff(h)
    /\ active_threads = <<>>

\* C2: while one tracked effect is between the first store of a frame and
\* its flush, no other tracked effect stores a pixel or flushes.
C2_FramesNotInterleaved ==
  [][\A g \in Handles : \A h \in Handles \ {g} :
       (threads[g].tracked /\ threads[h].tracked /\ MidFrame(g))
         => ~WritesOrFlushes(h)]_vars

\* C3 as stated: effects started by the same kind of lookup exclude each
\* other: when the later one has begun its first frame the earlier one has
\* terminated, and at most one of them is running.
C3_OnePerChannel ==
  \A g \in Handles : \A h \in Handles :
    (g < h /\ threads[g].lookup = threads[h].lookup) =>
      /\ threads[h].frames >= 1 => threads[g].pc = "done"
      /\ ~(Running(g) /\ Running(h))

\* C3 as amended: a lookup never cancels an effect: while the main thread
\* is in the prompt loop every effect started so far is still uncanceled
\* and has not begun its cleanup, whatever effects were started after it.
C3_LookupLeavesEffectsRunning ==
  mainpc \in TryPcs =>
    \A h \in Handles :
      /\ ~threads[h].stop
      /\ threads[h].pc \notin {"reset", "reset_show", "done"}

\* C3 witness: the effect of a later SKU lookup has written and flushed its
\* first frame while the effect of an earlier SKU lookup on the same
\* addresses is still in its frame loop, uncanceled.
C3_Witness ==
  /\ mainpc = "input"
  /\ Len(threads) = 2
  /\ threads[1].lookup = "sku" /\ threads[2].lookup = "sku"
  /\ threads[1].pc = "for" /\ ~threads[1].stop
  /\ threads[2].frames = 1 /\ threads[2].pc = "for"
  /\ shown[1] # Black

\* C4: whenever thread_lock is free, every effect thread that has been
\* started and has not terminated has an entry in active_threads.
C4_RunningIsTracked ==
  ~thread_lock =>
    \A h \in Handles :
      Running(h) => \E id \in DOMAIN active_threads : active_threads[id] = h

\* C5: no two effects ever receive the same thread_id, and a start never
\* overwrites an existing active_threads entry.
C5_IdsNeverReused ==
  /\ \A g \in Handles : \A h \in Handles :
       g # h => threads[g].id # threads[h].id
  /\ mainpc = "register" => loc.thread_id \notin DOMAIN active_threads

\* C6: once an effect's stop_event is set the effect begins no further
\* frame (so only a frame already begun is still written and flushed), the
\* for loop is left at its next check without running the remaining steps,
\* and the while loop is left for the cleanup.
C6_CancelWithinOneFrame ==
  [][\A h \in Handles :
       threads[h].stop =>
         /\ threads'[h].frames = threads[h].frames
         /\ (threads[h].pc = "for" /\ threads'[h].pc # "for")
              => threads'[h].pc = "while" /\ threads'[h].step = threads[h].step
         /\ (threads[h].pc = "while" /\ threads'[h].pc # "while")
              => threads'[h].pc = "reset"]_vars

\* C6 witness: a canceled effect has reached its cleanup after one frame,
\* with the rest of the cycle not run.
C6_Witness ==
  \E h \in Handles :
    /\ threads[h].stop
    /\ threads[h].pc = "reset"
    /\ threads[h].frames = 1
    /\ threads[h].step = 1
    /\ threads[h].step < total_steps

\* C7: every call of stop_all_breathing_effects returns.
C7_StopAllReturns == (mainpc \in StopPcs) ~> (mainpc = "exited")

\* C7 witness: stop_all_breathing_effects has returned after joining two
\* tracked effects, one of them with an out-of-range address it skipped in
\* a frame and in its cleanup.
C7_Witness ==
  /\ mainpc = "exited"
  /\ Len(threads) = 2
  /\ \A h \in Handles : threads[h].tracked /\ threads[h].pc = "done"
  /\ \E h \in Handles :
       /\ threads[h].frames >= 1
       /\ \E j \in DOMAIN threads[h].addrs : ~InRange(threads[h].addrs[j])

\* C8: after stop_all_breathing_effects returns every pixel of the strip is
\* (0,0,0).
C8_AllPixelsOff ==
  mainpc = "exited" => \A a \in 0..(LED_COUNT - 1) : pixels[a] = Black

\* C9: whatever the outcome of the pixels.show() of a frame, the effect
\* goes on to its sleep and the next step of its for loop, and an effect
\* that has ended has run its cleanup.
C9_FlushFailureDropsFrame ==
  [][\A h \in Handles :
       /\ (threads[h].pc = "show" /\ threads'[h].pc # "show")
            => threads'[h].pc = "for" /\ threads'[h].step = threads[h].step + 1
       /\ Terminated(h)' => threads'[h].pc = "done"]_vars

\* the token starts nothing: an unknown SKU, an unknown sales order id, or
\* an order none of whose SKUs has an address
ResolvesToNothing(tok) ==
  /\ Lower(tok) # "exit"
  /\ IF IsDigit(tok)
     THEN \A i \in DOMAIN OrderRows :
            OrderRows[i][1] = tok =>
              \A j \in DOMAIN SkuRows :
                Lower(SkuRows[j][1]) # Lower(OrderRows[i][2])
     ELSE \A j \in DOMAIN SkuRows : Lower(SkuRows[j][1]) # Lower(tok)

\* C11: a call of handle_input whose token resolves to nothing returns to
\* the prompt and, from reading the token to being called again, leaves
\* the threads (none started, none signalled), active_threads, the pixel
\* buffer, the strip and thread_lock as they were.
C11_NoneChangesNothing ==
  [][/\ (mainpc = "input" /\ mainpc' # "input"
           /\ loc'.user_input \in Tokens /\ ResolvesToNothing(loc'.user_input))
          => /\ mainpc' = "return_none"
             /\ UNCHANGED <<pixels, shown, threads, active_threads, thread_lock>>
     /\ (mainpc = "return_none" /\ mainpc' # "return_none")
          => /\ mainpc' \in {"input", "stop_acquire"}
             /\ UNCHANGED <<pixels, shown, threads, active_threads, thread_lock>>
     /\ (mainpc = "return_none" /\ mainpc' = "return_none")
          => UNCHANGED <<active_threads, thread_lock>>]_vars

\* C11 witness: with one effect in the middle of a frame, the user has
\* typed an order none of whose SKUs has an address and handle_input is
\* returning None.
C11_Witness ==
  /\ mainpc = "return_none"
  /\ loc.user_input = "2"
  /\ \E h \in Handles : threads[h].pc = "show" /\ threads[h].tracked

\* the positions at which the main thread holds thread_lock
LockPcs == {"thread_start", "register", "stop_signal", "stop_join"}

\* C13: thread_lock is held by the main thread only, inside the with
\* blocks of handle_input and stop_all_breathing_effects; and wherever the
\* main thread is inside handle_input its next step can be taken, whatever
\* the effect threads are doing (the only step of the main thread that
\* waits for an effect is the join of stop_all_breathing_effects).
C13_StartNeverWaitsForEffects ==
  /\ thread_lock => mainpc \in LockPcs
  /\ mainpc \in TryPcs => ENABLED HandleInputStep

\* C13 witness: the main thread is about to take thread_lock to start a
\* second effect while the first is between the stores of a frame and its
\* flush.
C13_Witness ==
  /\ mainpc = "lock"
  /\ ~thread_lock
  /\ \E h \in Handles : threads[h].pc = "show" /\ ~threads[h].stop

\* C14: an effect's stop_event, once set, stays set; the effect begins its
\* cleanup only after that, and only once; it terminates by the flush of
\* the cleanup, after the cleanup has set every in-range address of its
\* list to (0,0,0); and once it has terminated it takes no further step,
\* so it stores no pixel and calls pixels.show() no more.
C14_StoppedOnlyAfterCleanup ==
  [][/\ \A h \in Handles :
          /\ threads[h].stop => threads'[h].stop
          /\ threads[h].pc = "done" =>
               threads'[h].pc = "done" /\ ~Stepped(h)
          /\ (threads[h].pc # "done" /\ threads'[h].pc = "done") =>
               /\ threads[h].zeroed = InRangeOf(threads[h].addrs)
               /\ shown' = pixels
     /\ \A h \in DOMAIN threads' :
          /\ threads'[h].pc \in {"reset", "reset_show", "done"}
               => threads'[h].stop /\ threads'[h].cleanups = 1
          /\ Terminated(h)' =>
               /\ threads'[h].pc = "done"
               /\ threads'[h].flushed = 1
               /\ threads'[h].zeroed = InRangeOf(threads'[h].addrs)
          /\ threads'[h].cleanups <= 1]_vars

\* C14 witness: an effect has been canceled after its first frame and has
\* terminated: its cleanup ran once, set its in-range address to (0,0,0)
\* and flushed.
C14_Witness ==
  \E h \in Handles :
    /\ threads[h].pc = "done"
    /\ threads[h].stop
    /\ threads[h].frames = 1
    /\ threads[h].addrs = <<1, 60>>
    /\ threads[h].zeroed = {1}
    /\ threads[h].cleanups = 1
    /\ shown[1] = Black

\* the addresses of a list
AddressesOf(address_list) == {address_list[j] : j \in DOMAIN address_list}

\* C15: a pixel whose address is in the address list of no thread started
\* so far is (0,0,0), as at the start, in the buffer and on the strip; a
\* step of an effect changes no pixel outside its own list; and while the
\* effect is the only one started, each of its flushes shows one color on
\* all the in-range addresses of its list: the color of the frame, or
\* (0,0,0) for the cleanup.
C15_OnlyOwnAddresses ==
  [][/\ \A a \in 0..(LED_COUNT - 1) :
          (\A h \in DOMAIN threads' : a \notin AddressesOf(threads'[h].addrs))
            => pixels'[a] = Black /\ shown'[a] = Black
     /\ \A h \in Handles :
          /\ Stepped(h) =>
               \A a \in 0..(LED_COUNT - 1) \ AddressesOf(threads[h].addrs) :
                 pixels'[a] = pixels[a]
          /\ (Len(threads) = 1 /\ Stepped(h) /\ threads[h].pc = "show") =>
               \A a \in InRangeOf(threads[h].addrs) :
                 shown'[a] = current_color(threads[h].color, threads[h].step)
          /\ (Len(threads) = 1 /\ Stepped(h) /\ threads[h].pc = "reset_show") =>
               \A a \in InRangeOf(threads[h].addrs) : shown'[a] = Black]_vars

\* C15 witness: the only effect started, on the addresses 0 and 1, has
\* flushed its first frame: both addresses show the color of step 0 and
\* address 2, in no list, is off.
C15_Witness ==
  /\ Len(threads) = 1
  /\ threads[1].addrs = <<0, 1>>
  /\ threads[1].pc = "for"
  /\ threads[1].frames = 1
  /\ shown[0] = current_color("White", 0)
  /\ shown[1] = shown[0]
  /\ shown[0] # Black
  /\ shown[2] = Black

\* C16: a frame of breathe_effect, a cleanup (reset_leds) and a
\* set_led_color call with a known color each call pixels.show() exactly
\* once, as their last step, after the loop over the whole address list,
\* and nowhere inside that loop; so does the reset_leds([]) of
\* stop_all_breathing_effects; this for an empty list and for a list with
\* no address in range as for any other.
C16_OneFlushAfterTheWrites ==
  [][/\ \A h \in Handles :
          LET t == threads[h]
          IN /\ (t.pc \in {"write", "reset"} /\ Stepped(h)) =>
                  /\ shown' = shown
                  /\ t.flushed = 0 /\ threads'[h].flushed = 0
             /\ (t.pc \in {"show", "reset_show"} /\ Stepped(h)) =>
                  /\ shown' = pixels
                  /\ t.flushed = 0 /\ threads'[h].flushed = 1
                  /\ t.addrs # <<>> => t.i = Len(t.addrs)
                  /\ threads'[h].pc = IF t.pc = "show" THEN "for" ELSE "done"
             /\ (t.pc = "for" /\ t.frames >= 1) => t.flushed = 1
             /\ t.pc = "done" => t.flushed = 1
     /\ (mainpc = "set_led_color" /\ mainpc' # mainpc
           /\ loc.color \in DOMAIN COLOR_MAP) =>
          /\ shown' = shown
          /\ mainpc' = IF loc.addresses = <<>> THEN "slc_show" ELSE "slc_write"
     /\ (mainpc = "slc_write" /\ loc' # loc) =>
          /\ shown' = shown
          /\ mainpc' = "slc_show" <=> loc.k = Len(loc.addresses)
     /\ (mainpc = "slc_show" /\ mainpc' # mainpc) =>
          /\ shown' = pixels
          /\ mainpc' = "input"
     /\ (mainpc = "stop_join" /\ mainpc' = mainpc /\ loc' # loc) =>
          shown' = pixels /\ pixels' = pixels]_vars

\* C16 witness: an effect whose only address is out of range has finished
\* a frame with one warning and one flush, and set_led_color called with
\* an empty list is at its flush.
C16_Witness ==
  /\ mainpc = "slc_show"
  /\ loc.addresses = <<>>
  /\ \E h \in Handles :
       /\ threads[h].addrs = <<60>>
       /\ threads[h].pc = "for"
       /\ threads[h].frames = 1
       /\ threads[h].warned = 1
       /\ threads[h].flushed = 1

\* C17: the n-th frame of an effect uses step (n - 1) mod total_steps,
\* which is in 0..total_steps-1; the step moves on only by one, at the
\* flush that ends the frame, or back to 0 when range(total_steps) is
\* exhausted; a frame begins only after the flush of the one before; and
\* an effect that is not canceled stays inside its loop.
C17_StepsCycle ==
  [][\A h \in Handles :
       LET t == threads[h]
           u == threads'[h]
       IN /\ u.pc \in {"write", "show"} =>
               /\ u.step \in 0..(total_steps - 1)
               /\ u.step = (u.frames - 1) % total_steps
          /\ u.step # t.step =>
               \/ /\ t.pc = "show" /\ u.pc = "for"
                  /\ u.step = t.step + 1
                  /\ shown' = pixels
               \/ /\ t.pc = "while" /\ u.pc = "for"
                  /\ t.step = total_steps /\ u.step = 0
          /\ u.frames # t.frames =>
               /\ u.frames = t.frames + 1
               /\ t.pc = "for" /\ t.step < total_steps
               /\ t.frames >= 1 => t.flushed = 1
          /\ ~u.stop => u.pc \in {"enter", "while", "for", "write", "show"}]_vars

\* C17 witness: an effect that has not been canceled has run the steps
\* 0..total_steps-1 and is in the frame after them, at step 0 again.
C17_Witness ==
  \E h \in Handles :
    /\ ~threads[h].stop
    /\ threads[h].pc = "show"
    /\ threads[h].frames = total_steps + 1
    /\ threads[h].step = 0

\* C18: the brightness of every frame is in [0,1]; every channel an effect
\* stores is the base channel times that brightness, cut to an integer
\* toward zero, hence between 0 and the base channel, which is at most
\* 255; and every channel of the buffer and of the strip is in 0..255.
C18_ChannelsWithinBase ==
  [][/\ \A h \in Handles :
          LET t == threads[h]
          IN (t.pc = "write" /\ Stepped(h) /\ InRange(t.addrs[t.i])) =>
               LET b == BrightnessMicro[t.step + 1]
               IN /\ 0 <= b /\ b <= Micro
                  /\ \A c \in 1..3 :
                       LET v == pixels'[t.addrs[t.i]][c]
                           base == COLOR_MAP[t.color][c]
                       IN /\ 0 <= v /\ v <= base /\ base <= 255
                          /\ v * Micro <= base * b
                          /\ base * b < (v + 1) * Micro
     /\ \A a \in 0..(LED_COUNT - 1) : \A c \in 1..3 :
          pixels'[a][c] \in 0..255 /\ shown'[a][c] \in 0..255]_vars

\* C18 witness: an Orange effect has stored the frame of step 37, the
\* brightest of the cycle: (254, 164, 0), each channel just under its base.
C18_Witness ==
  \E h \in Handles :
    /\ threads[h].color = "Orange"
    /\ threads[h].pc = "show"
    /\ threads[h].step = 37
    /\ pixels[1] = <<254, 164, 0>>

RECURSIVE ResolvedLists(_, _)
\* the address lists of the SKUs of an order that have one, in row order
ResolvedLists(skus, i) ==
  IF i > Len(skus) THEN <<>>
  ELSE LET a == find_address_by_sku(skus[i])
       IN (IF Truthy(a) THEN <<a.val>> ELSE <<>>) \o ResolvedLists(skus, i + 1)

OutOfRange(address_list) ==
  Cardinality({j \in DOMAIN address_list : ~InRange(address_list[j])})

\* C12: in a frame of breathe_effect and in set_led_color, every step over
\* an address either stores the color at that address and nowhere else (in
\* range) or leaves the buffer alone and prints one warning (out of range),
\* and goes on to the next address or to the flush; the flush pushes the
\* buffer after one warning per out-of-range occurrence, the effect goes on
\* to its next step, set_led_color returns; the buffer keeps LED_COUNT
\* pixels.
C12_MixedListWritesValidWarnsInvalid ==
  [][/\ DOMAIN pixels' = 0..(LED_COUNT - 1)
     /\ \A h \in Handles :
          LET t == threads[h]
          IN /\ (t.pc = "write" /\ Stepped(h)) =>
                  /\ IF InRange(t.addrs[t.i])
                     THEN /\ pixels' = [pixels EXCEPT ![t.addrs[t.i]] =
                                          current_color(t.color, t.step)]
                          /\ threads'[h].warned = t.warned
                     ELSE /\ pixels' = pixels
                          /\ threads'[h].warned = t.warned + 1
                  /\ shown' = shown
                  /\ threads'[h].pc =
                       IF t.i = Len(t.addrs) THEN "show" ELSE "write"
             /\ (t.pc = "show" /\ Stepped(h)) =>
                  /\ shown' = pixels /\ pixels' = pixels
                  /\ t.warned = OutOfRange(t.addrs)
                  /\ threads'[h].pc = "for"
     /\ (mainpc = "slc_write" /\ loc' # loc) =>
          /\ IF InRange(loc.addresses[loc.k])
             THEN /\ pixels' = [pixels EXCEPT ![loc.addresses[loc.k]] =
                                  COLOR_MAP[loc.color]]
                  /\ loc'.warned = loc.warned
             ELSE /\ pixels' = pixels
                  /\ loc'.warned = loc.warned + 1
          /\ shown' = shown
          /\ mainpc' =
               IF loc.k = Len(loc.addresses) THEN "slc_show" ELSE "slc_write"
     /\ (mainpc = "slc_show" /\ mainpc' # mainpc) =>
          /\ shown' = pixels /\ pixels' = pixels
          /\ loc.warned = OutOfRange(loc.addresses)
          /\ mainpc' = "input"]_vars

\* C12 witness: an effect on the addresses 1, 60, -1 has stored and
\* flushed its first frame, with two warnings, and is still in its loop;
\* set_led_color on the same list has stored at 1, printed two warnings and
\* is about to flush.
C12_Witness ==
  /\ mainpc = "slc_show"
  /\ loc.addresses = <<1, 60, -1>>
  /\ loc.warned = 2
  /\ pixels[1] = COLOR_MAP[loc.color]
  /\ \E h \in Handles :
       /\ threads[h].addrs = <<1, 60, -1>>
       /\ threads[h].pc = "for"
       /\ threads[h].frames = 1
       /\ threads[h].warned = 2
       /\ threads[h].flushed = 1
       /\ shown[1] = current_color(threads[h].color, 0)

\* a request the caller should have rejected
Invalid(color_name, address_list) ==
  color_name \notin DOMAIN COLOR_MAP \/ address_list = <<>>

\* C10: a request with an unknown color name or an empty address set has
\* no effect: set_led_color leaves the buffer and the strip alone, no
\* thread is started or tracked for it, and no effect runs a frame for it.
C10_InvalidRequestRejected ==
  [][/\ (mainpc \in {"set_led_color", "slc_write", "slc_show"}
           /\ mainpc' # mainpc /\ Invalid(loc.color, loc.addresses))
          => pixels' = pixels /\ shown' = shown
     /\ (mainpc \in {"lock", "thread_start", "register"}
           /\ Invalid(loc.color, loc.addresses))
          => /\ Len(threads') = Len(threads)
             /\ DOMAIN active_threads' \subseteq DOMAIN active_threads
     /\ \A h \in Handles :
          Invalid(threads[h].color, threads[h].addrs)
            => threads'[h].frames = threads[h].frames]_vars

====
